---- MODULE Spec2Model ----
(***************************************************************************)
(* Model of src/src/app.ts: the observable project store (ProjectState),   *)
(* the two filtered list views (ProjectList), the project cards            *)
(* (ProjectItem) as drag sources, the form (ProjectInput) and validate().  *)
(*                                                                         *)
(* Project objects live in a heap (a JavaScript array holds references):   *)
(* heap[r] is the object with reference r, references are handed out in    *)
(* allocation order.  Arrays (the store's projects, the copy given to a    *)
(* listener, a view's assignedProjects) are sequences of references.       *)
(* Strings a length or a trim is taken of are sequences of one-character   *)
(* strings; ids are opaque strings.  A JavaScript number is a record       *)
(* [nan, n].                                                               *)
(***************************************************************************)
EXTENDS Integers, Sequences, FiniteSets, TLC

\* ------------------------------------------------------------------ bounds
\* The largest number of projects the store holds in the model.
MaxProjects == 2

\* The largest number of listeners registered with the store in the model.
MaxListeners == 4

\* The largest number of ProjectState objects constructed in the model.
MaxStores == 2

\* --------------------------------------------------------------- values
\* enum ProjectStatus
Active == "Active"
Finished == "Finished"
ProjectStatus == {Active, Finished}

\* The type parameter of ProjectList; the module builds one list of each.
ViewTypes == {"active", "finished"}

\* Callbacks a client registers with addListener besides the two lists'
\* (type Listener, line 29): "editor" removes the first element of the
\* array it is called with (items.shift()) and keeps the array, "probe"
\* keeps the array as it is.
ClientListeners == {"editor", "probe"}
AllListeners == ViewTypes \cup ClientListeners

\* JavaScript numbers: an integer or NaN.
Num(n) == [nan |-> FALSE, n |-> n]
NaN == [nan |-> TRUE, n |-> 0]

\* The values Math.random().toString() may return.  Nothing in addProject
\* compares the new value with the ids already stored.
RandomIds == {"0.1", "0.2"}

\* A plain-text drag payload that is the id of no project.
UnknownId == "zzz"

\* Texts a drag session can carry as text/plain.
PayloadIds == RandomIds \cup {UnknownId}

\* ------------------------------------------------------------- strings
Whitespace == {" "}
Digits == {"0", "1", "2", "3", "4", "5", "6", "7", "8", "9"}

RECURSIVE TrimStart(_)
TrimStart(s) ==
  IF s = <<>> THEN <<>>
  ELSE IF Head(s) \in Whitespace THEN TrimStart(Tail(s))
  ELSE s

RECURSIVE TrimEnd(_)
TrimEnd(s) ==
  IF s = <<>> THEN <<>>
  ELSE IF s[Len(s)] \in Whitespace THEN TrimEnd(SubSeq(s, 1, Len(s) - 1))
  ELSE s

\* String.prototype.trim
Trim(s) == TrimEnd(TrimStart(s))

DigitValue(c) ==
  CASE c = "0" -> 0 [] c = "1" -> 1 [] c = "2" -> 2 [] c = "3" -> 3
    [] c = "4" -> 4 [] c = "5" -> 5 [] c = "6" -> 6 [] c = "7" -> 7
    [] c = "8" -> 8 [] c = "9" -> 9

RECURSIVE DigitsValue(_)
DigitsValue(s) ==
  IF s = <<>> THEN 0
  ELSE 10 * DigitsValue(SubSeq(s, 1, Len(s) - 1)) + DigitValue(s[Len(s)])

\* The unary plus of line 362 on a string: white space is trimmed, the
\* empty string is 0, a run of digits is its value, anything else is NaN.
ToNumber(s) ==
  LET t == Trim(s) IN
    IF t = <<>> THEN Num(0)
    ELSE IF \A i \in 1..Len(t) : t[i] \in Digits THEN Num(DigitsValue(t))
    ELSE NaN

\* ---------------------------------------------------------- validation
\* An optional numeric property of a Validatable: absent (undefined),
\* null, or a number.
Undefined == [tag |-> "undefined", n |-> 0]
Null == [tag |-> "null", n |-> 0]
Some(n) == [tag |-> "number", n |-> n]

\* The value of a Validatable is a string or a number.
StrVal(s) == [type |-> "string", s |-> s, n |-> NaN]
NumVal(x) == [type |-> "number", s |-> <<>>, n |-> x]

\* value.toString().trim().length !== 0 (line 100); the text of a number
\* is never empty.
NonEmptyText(v) ==
  IF v.type = "string" THEN Len(Trim(v.s)) # 0 ELSE TRUE

\* a > b where b is an optional property: undefined converts to NaN and
\* every comparison with NaN is false; null converts to 0.
Greater(a, opt) ==
  CASE opt.tag = "undefined" -> FALSE
    [] opt.tag = "null" -> (~a.nan) /\ a.n > 0
    [] opt.tag = "number" -> (~a.nan) /\ a.n > opt.n

Less(a, opt) ==
  CASE opt.tag = "undefined" -> FALSE
    [] opt.tag = "null" -> (~a.nan) /\ a.n < 0
    [] opt.tag = "number" -> (~a.nan) /\ a.n < opt.n

\* function validate (lines 97-129).  "required" absent is falsy, so it
\* is modelled as FALSE.
validate(validatableInput) ==
  LET v == validatableInput.value
      isValid1 == IF validatableInput.required THEN NonEmptyText(v) ELSE TRUE
      isValid2 == IF validatableInput.minLength # Null /\ v.type = "string"
                  THEN isValid1 /\ Greater(Num(Len(v.s)), validatableInput.minLength)
                  ELSE isValid1
      isValid3 == IF validatableInput.maxLength # Null /\ v.type = "string"
                  THEN isValid2 /\ Less(Num(Len(v.s)), validatableInput.maxLength)
                  ELSE isValid2
      isValid4 == IF validatableInput.min # Null /\ v.type = "number"
                  THEN isValid3 /\ Greater(v.n, validatableInput.min)
                  ELSE isValid3
      isValid5 == IF validatableInput.max # Null /\ v.type = "number"
                  THEN isValid4 /\ Less(v.n, validatableInput.max)
                  ELSE isValid4
  IN ~isValid5

\* --------------------------------------------------------------- state
VARIABLES
  heap,              \* the Project objects, by reference (class Project)
  projects,          \* ProjectState.projects: references, in array order
  listeners,         \* State.listeners: the registered callbacks, in order
  assignedProjects,  \* ProjectList.assignedProjects of each list
  snapshot,          \* the array each listener was last called with
  droppable,         \* whether each list's <ul> has the class "droppable"
  drag,              \* the platform's drag session (event.dataTransfer)
  dropTarget,        \* the list whose last dragover suppressed the default
  fields,            \* the values of the three form inputs
  lastCall,          \* the handler that ran last and what it did
  instance,          \* ProjectState.instance: 0 (undefined) or the store it holds
  constructed,       \* how many ProjectState objects were constructed
  checked            \* the calls of validate a client made, with their results

vars == <<heap, projects, listeners, assignedProjects, snapshot, droppable,
          drag, dropTarget, fields, lastCall, instance, constructed, checked>>


Range(s) == {s[i] : i \in 1..Len(s)}

\* No drag session in progress.
NoDrag == [active |-> FALSE, types |-> <<>>, data |-> ""]

\* A drag session started on a card (lines 209-210): one text/plain item.
TextDrag(text) == [active |-> TRUE, types |-> <<"text/plain">>, data |-> text]

\* Drag sessions the platform starts on something that is no card: files,
\* a text selection, a session without data.  getData("text/plain") of a
\* session without such an item is the empty string.
ForeignDrags ==
  { [active |-> TRUE, types |-> <<"Files">>, data |-> ""],
    [active |-> TRUE, types |-> <<>>, data |-> ""],
    TextDrag(UnknownId) }

NoTarget == "none"

\* Form contents the user submits.
Abcd == <<"a", "b", "c", "d">>
Abcdef == <<"a", "b", "c", "d", "e", "f">>
Form(t, d, p) == [title |-> t, description |-> d, people |-> p]
ClearedForm == Form(<<>>, <<>>, <<>>)
SampleForms ==
  { Form(<<"a">>, Abcdef, <<"3">>),
    Form(<<" ">>, Abcd, <<"6">>),
    ClearedForm }

\* What lastCall records: the handler, the list it ran on, the id and the
\* status it was given, the status the project with that id had when the
\* handler started (NotFound when the store holds no such project), and
\* the listeners the handler invoked, in order.
NotFound == "none"
Call(op, view, id, status, old, invoked) ==
  [op |-> op, view |-> view, id |-> id, status |-> status,
   old |-> old, invoked |-> invoked]

\* getInstance that constructs a store on every call.
getInstance_AlwaysNew(inst, n) ==
  [instance |-> n + 1, constructed |-> n + 1, returned |-> n + 1]

\* getInstance (lines 47-53) with the static field holding inst and n
\* stores constructed so far: the field, the count and the returned store
\* after the call.
getInstance(inst, n) ==
  IF inst # 0
  THEN [instance |-> inst, constructed |-> n, returned |-> inst]
  ELSE [instance |-> n + 1, constructed |-> n + 1, returned |-> n + 1]

\* Line 82: the first call of getInstance, made while the module loads,
\* with the static field still undefined and no store constructed.
ClassLoaded == getInstance(0, 0)

\* Lines 82 and 386-388: the store is obtained, the form and the two lists
\* are built; each list clears its assignedProjects and registers its
\* listener, "active" first.
Init ==
  /\ heap = <<>>
  /\ projects = <<>>
  /\ listeners = <<"active", "finished">>
  /\ assignedProjects = [v \in ViewTypes |-> <<>>]
  /\ snapshot = [l \in AllListeners |-> <<>>]
  /\ droppable = [v \in ViewTypes |-> FALSE]
  /\ drag = NoDrag
  /\ dropTarget = NoTarget
  /\ fields = ClearedForm
  /\ lastCall = Call("init", NoTarget, "", Active, NotFound, <<>>)
  /\ instance = ClassLoaded.instance
  /\ constructed = ClassLoaded.constructed
  /\ checked = <<>>

\* -------------------------------------------------------------- store
\* The filter callback of lines 269-275: the "active" branch returns the
\* comparison, the other branch evaluates the comparison and returns
\* nothing, which filter takes as false.
Relevant(type, prj) ==
  IF type = "active" THEN prj.status = Active ELSE FALSE

\* Array.prototype.filter over an array of references.
RECURSIVE Filter(_, _, _)
Filter(type, items, h) ==
  IF items = <<>> THEN <<>>
  ELSE IF Relevant(type, h[Head(items)])
       THEN <<Head(items)>> \o Filter(type, Tail(items), h)
       ELSE Filter(type, Tail(items), h)

\* Array.prototype.slice(): a new array with the same references.
Slice(items) == [i \in 1..Len(items) |-> items[i]]

\* What a callback leaves of the array it was called with: "editor"
\* shifts it, the others do not touch it.
Callback(type, items) ==
  IF type = "editor" /\ items # <<>> THEN Tail(items) ELSE items

\* One call of a listener with the array items.  The listener a list
\* registered (lines 268-278) replaces the list's assignedProjects by the
\* filtered array and renders them.  arg is the array as the callback
\* leaves it.
Listener(type, items, h, st) ==
  [assigned |-> IF type \in ViewTypes
                THEN [st.assigned EXCEPT ![type] = Filter(type, items, h)]
                ELSE st.assigned,
   snap |-> [st.snap EXCEPT ![type] = Callback(type, items)],
   invoked |-> Append(st.invoked, type),
   arg |-> Callback(type, items)]

\* updateListeners that makes one slice before the loop and calls every
\* listener with that same array.
RECURSIVE SharedCopyLoop(_, _, _)
SharedCopyLoop(ls, h, st) ==
  IF ls = <<>> THEN st
  ELSE SharedCopyLoop(Tail(ls), h, Listener(Head(ls), st.arg, h, st))

updateListeners_SharedCopy(ls, prjs, h, st) ==
  SharedCopyLoop(ls, h, [st EXCEPT !.arg = Slice(prjs)])

\* updateListeners that walks the listeners from the last to the first.
RECURSIVE updateListeners_Reverse(_, _, _, _)
updateListeners_Reverse(ls, prjs, h, st) ==
  IF ls = <<>> THEN st
  ELSE updateListeners_Reverse(SubSeq(ls, 1, Len(ls) - 1), prjs, h,
                               Listener(ls[Len(ls)], Slice(prjs), h, st))

\* updateListeners (lines 75-79): every listener, in order, with a slice.
RECURSIVE updateListeners(_, _, _, _)
updateListeners(ls, prjs, h, st) ==
  IF ls = <<>> THEN st
  ELSE updateListeners(Tail(ls), prjs, h, Listener(Head(ls), Slice(prjs), h, st))

\* The lists' state before a round of notifications.
Before ==
  [assigned |-> assignedProjects, snap |-> snapshot, invoked |-> <<>>,
   arg |-> <<>>]

\* addProject that replaces the array by one holding the new project.
addProject_Replace(title, description, numOfPeople, id) ==
  LET NewProject == [id |-> id, title |-> title, description |-> description,
                     people |-> numOfPeople, status |-> Active]
      h == Append(heap, NewProject)
      prjs == <<Len(h)>>
  IN [heap |-> h, projects |-> prjs,
      lists |-> updateListeners(listeners, prjs, h, Before)]

\* addProject with the listeners called before the push.
addProject_NotifyBeforePush(title, description, numOfPeople, id) ==
  LET NewProject == [id |-> id, title |-> title, description |-> description,
                     people |-> numOfPeople, status |-> Active]
      h == Append(heap, NewProject)
      prjs == Append(projects, Len(h))
  IN [heap |-> h, projects |-> prjs,
      lists |-> updateListeners(listeners, projects, h, Before)]

\* addProject with unshift in place of push.
addProject_Unshift(title, description, numOfPeople, id) ==
  LET NewProject == [id |-> id, title |-> title, description |-> description,
                     people |-> numOfPeople, status |-> Active]
      h == Append(heap, NewProject)
      prjs == <<Len(h)>> \o projects
  IN [heap |-> h, projects |-> prjs,
      lists |-> updateListeners(listeners, prjs, h, Before)]

\* addProject (lines 55-65): a new Project, pushed, then the listeners.
\* The returned record is the state after the call.
addProject(title, description, numOfPeople, id) ==
  LET NewProject == [id |-> id, title |-> title, description |-> description,
                     people |-> numOfPeople, status |-> Active]
      h == Append(heap, NewProject)
      prjs == Append(projects, Len(h))
  IN [heap |-> h, projects |-> prjs,
      lists |-> updateListeners(listeners, prjs, h, Before)]

\* projects.find (line 68): the first reference whose project has the id,
\* 0 when there is none.
RECURSIVE Find(_, _, _)
Find(items, h, projectId) ==
  IF items = <<>> THEN 0
  ELSE IF h[Head(items)].id = projectId THEN Head(items)
  ELSE Find(Tail(items), h, projectId)

\* The status of the project the store finds for an id.
StatusOf(projectId) ==
  IF Find(projects, heap, projectId) = 0 THEN NotFound
  ELSE heap[Find(projects, heap, projectId)].status

\* switchProjectStatus that assigns the status to every project with the id.
switchProjectStatus_All(projectId, newStatus) ==
  LET project == Find(projects, heap, projectId)
      h == [r \in 1..Len(heap) |->
              IF heap[r].id = projectId
              THEN [heap[r] EXCEPT !.status = newStatus] ELSE heap[r]]
  IN IF project # 0
     THEN [heap |-> h, projects |-> projects,
           lists |-> updateListeners(listeners, projects, h, Before)]
     ELSE [heap |-> heap, projects |-> projects, lists |-> Before]

\* switchProjectStatus with updateListeners outside the if.
switchProjectStatus_AlwaysNotify(projectId, newStatus) ==
  LET project == Find(projects, heap, projectId)
      h == IF project # 0 THEN [heap EXCEPT ![project].status = newStatus] ELSE heap
  IN [heap |-> h, projects |-> projects,
      lists |-> updateListeners(listeners, projects, h, Before)]

\* switchProjectStatus that flips the status instead of assigning it.
switchProjectStatus_Toggle(projectId, newStatus) ==
  LET project == Find(projects, heap, projectId)
      h == [heap EXCEPT ![project].status =
              IF heap[project].status = Active THEN Finished ELSE Active]
  IN IF project # 0
     THEN [heap |-> h, projects |-> projects,
           lists |-> updateListeners(listeners, projects, h, Before)]
     ELSE [heap |-> heap, projects |-> projects, lists |-> Before]

\* switchProjectStatus (lines 67-73).
switchProjectStatus(projectId, newStatus) ==
  LET project == Find(projects, heap, projectId)
      h == [heap EXCEPT ![project].status = newStatus]
  IN IF project # 0
     THEN [heap |-> h, projects |-> projects,
           lists |-> updateListeners(listeners, projects, h, Before)]
     ELSE [heap |-> heap, projects |-> projects, lists |-> Before]

\* A client of the store calls switchProjectStatus.
SwitchProjectStatus(projectId, newStatus) ==
  LET r == switchProjectStatus(projectId, newStatus) IN
    /\ heap' = r.heap
    /\ projects' = r.projects
    /\ assignedProjects' = r.lists.assigned
    /\ snapshot' = r.lists.snap
    /\ lastCall' = Call("switchProjectStatus", NoTarget, projectId, newStatus,
                        StatusOf(projectId), r.lists.invoked)
    /\ UNCHANGED <<listeners, droppable, drag, dropTarget, fields,
                 instance, constructed, checked>>

\* --------------------------------------------------------------- form
\* gatherUserInput (lines 333-364): the three fields or nothing.
gatherUserInput(f) ==
  LET titleValidatable ==
        [value |-> StrVal(f.title), required |-> TRUE, minLength |-> Undefined,
         maxLength |-> Undefined, min |-> Undefined, max |-> Undefined]
      descriptionValidatable ==
        [value |-> StrVal(f.description), required |-> TRUE, minLength |-> Some(5),
         maxLength |-> Undefined, min |-> Undefined, max |-> Undefined]
      peopleAmountValidatable ==
        [value |-> StrVal(f.people), required |-> TRUE, minLength |-> Undefined,
         maxLength |-> Undefined, min |-> Some(1), max |-> Some(5)]
  IN IF \/ ~validate(titleValidatable)
        \/ ~validate(descriptionValidatable)
        \/ ~validate(peopleAmountValidatable)
     THEN [isArray |-> FALSE, title |-> <<>>, description |-> <<>>, people |-> NaN]
     ELSE [isArray |-> TRUE, title |-> f.title, description |-> f.description,
           people |-> ToNumber(f.people)]

\* submitHandler (lines 373-383) on a form the user filled with f; id is
\* the value Math.random().toString() returns if addProject is reached.
SubmitHandler(f, id) ==
  LET userInput == gatherUserInput(f)
      r == addProject(userInput.title, userInput.description, userInput.people, id)
  IN
    /\ Len(projects) < MaxProjects
    /\ IF userInput.isArray
       THEN /\ heap' = r.heap
            /\ projects' = r.projects
            /\ assignedProjects' = r.lists.assigned
            /\ snapshot' = r.lists.snap
            /\ fields' = ClearedForm
            /\ lastCall' = Call("addProject", NoTarget, id, Active, NotFound, r.lists.invoked)
       ELSE /\ UNCHANGED <<heap, projects, assignedProjects, snapshot>>
            /\ fields' = f
            /\ lastCall' = Call("rejected", NoTarget, "", Active, NotFound, <<>>)
    /\ UNCHANGED <<listeners, droppable, drag, dropTarget,
                 instance, constructed, checked>>

\* ----------------------------------------------------------- dragging
\* ProjectItem.dragStartHandler (lines 206-211) of the i-th card of a list.
DragStartHandler(type, i) ==
  /\ ~drag.active
  /\ i \in 1..Len(assignedProjects[type])
  /\ drag' = TextDrag(heap[assignedProjects[type][i]].id)
  /\ dropTarget' = NoTarget
  /\ lastCall' = Call("dragStart", type, heap[assignedProjects[type][i]].id,
                      Active, NotFound, <<>>)
  /\ UNCHANGED <<heap, projects, listeners, assignedProjects, snapshot,
                 droppable, fields,
                 instance, constructed, checked>>

\* The platform starts a drag of something that is not a card.
ForeignDragStart(d) ==
  /\ ~drag.active
  /\ drag' = d
  /\ dropTarget' = NoTarget
  /\ lastCall' = Call("foreignDragStart", NoTarget, "", Active, NotFound, <<>>)
  /\ UNCHANGED <<heap, projects, listeners, assignedProjects, snapshot,
                 droppable, fields,
                 instance, constructed, checked>>

\* dragOverHandler without the test of the payload's type.
DragOverHandler_NoCheck(type) ==
  /\ drag.active
  /\ droppable' = [droppable EXCEPT ![type] = TRUE]
  /\ dropTarget' = type
  /\ lastCall' = Call("dragOver", type, "", Active, NotFound, <<>>)
  /\ UNCHANGED <<heap, projects, listeners, assignedProjects, snapshot,
                 drag, fields, instance, constructed, checked>>

\* ProjectList.dragOverHandler (lines 243-250).  Without preventDefault
\* the platform does not allow a drop on the list.
DragOverHandler(type) ==
  /\ drag.active
  /\ IF Len(drag.types) > 0 /\ drag.types[1] = "text/plain"
     THEN /\ droppable' = [droppable EXCEPT ![type] = TRUE]
          /\ dropTarget' = type
     ELSE /\ droppable' = droppable
          /\ dropTarget' = NoTarget
  /\ lastCall' = Call("dragOver", type, "", Active, NotFound, <<>>)
  /\ UNCHANGED <<heap, projects, listeners, assignedProjects, snapshot,
                 drag, fields,
                 instance, constructed, checked>>

\* dragLeaveHandler that also asks the store to switch the dragged
\* project to the list's status.
DragLeaveHandler_Switches(type) ==
  LET r == switchProjectStatus(drag.data,
                               IF type = "active" THEN Active ELSE Finished)
  IN
    /\ drag.active
    /\ droppable' = [droppable EXCEPT ![type] = FALSE]
    /\ dropTarget' = IF dropTarget = type THEN NoTarget ELSE dropTarget
    /\ heap' = r.heap
    /\ projects' = r.projects
    /\ assignedProjects' = r.lists.assigned
    /\ snapshot' = r.lists.snap
    /\ lastCall' = Call("dragLeave", type, "", Active, NotFound, r.lists.invoked)
    /\ UNCHANGED <<listeners, drag, fields, instance, constructed, checked>>

\* ProjectList.dragLeaveHandler (lines 257-261).
DragLeaveHandler(type) ==
  /\ drag.active
  /\ droppable' = [droppable EXCEPT ![type] = FALSE]
  /\ dropTarget' = IF dropTarget = type THEN NoTarget ELSE dropTarget
  /\ lastCall' = Call("dragLeave", type, "", Active, NotFound, <<>>)
  /\ UNCHANGED <<heap, projects, listeners, assignedProjects, snapshot,
                 drag, fields,
                 instance, constructed, checked>>

\* ProjectList.dropHandler (lines 252-255): the id is read from the
\* payload and the handler returns.  The drop ends the drag session.
DropHandler(type) ==
  LET prjId == drag.data IN
    /\ drag.active
    /\ dropTarget = type
    /\ drag' = NoDrag
    /\ dropTarget' = NoTarget
    /\ lastCall' = Call("drop", type, prjId, Active, StatusOf(prjId), <<>>)
    /\ UNCHANGED <<heap, projects, listeners, assignedProjects, snapshot,
                   droppable, fields,
                 instance, constructed, checked>>

\* ProjectItem.dragEndHandler (lines 213-215): the gesture ends without a
\* drop; the handler only logs.
DragEndHandler ==
  /\ drag.active
  /\ drag' = NoDrag
  /\ dropTarget' = NoTarget
  /\ lastCall' = Call("dragEnd", NoTarget, "", Active, NotFound, <<>>)
  /\ UNCHANGED <<heap, projects, listeners, assignedProjects, snapshot,
                 droppable, fields,
                 instance, constructed, checked>>

\* ------------------------------------------------------ specification
Submit == \E f \in SampleForms, id \in RandomIds : SubmitHandler(f, id)
Switch == \E id \in PayloadIds, s \in ProjectStatus : SwitchProjectStatus(id, s)
DragStart == \E type \in ViewTypes, i \in 1..MaxProjects : DragStartHandler(type, i)
ForeignDrag == \E d \in ForeignDrags : ForeignDragStart(d)
DragOver == \E type \in ViewTypes : DragOverHandler(type)
DragLeave == \E type \in ViewTypes : DragLeaveHandler(type)
Drop == \E type \in ViewTypes : DropHandler(type)

Next ==
  \/ Submit
  \/ Switch
  \/ DragStart
  \/ ForeignDrag
  \/ DragOver
  \/ DragLeave
  \/ Drop
  \/ DragEndHandler

Spec == Init /\ [][Next]_vars

\* -------------------------------------------------- the store's clients
\* addListener that calls the new listener with the current projects.
addListener_CallsNow(listenerFn) ==
  [listeners |-> Append(listeners, listenerFn),
   lists |-> Listener(listenerFn, Slice(projects), heap, Before)]

\* addListener (lines 34-36): the callback is pushed, nothing is called.
addListener(listenerFn) ==
  [listeners |-> Append(listeners, listenerFn), lists |-> Before]

\* A client registers a callback of its own.
AddListener(listenerFn) ==
  LET r == addListener(listenerFn) IN
    /\ Len(listeners) < MaxListeners
    /\ listeners' = r.listeners
    /\ assignedProjects' = r.lists.assigned
    /\ snapshot' = r.lists.snap
    /\ lastCall' = Call("addListener", listenerFn, "", Active, NotFound,
                        r.lists.invoked)
    /\ UNCHANGED <<heap, projects, droppable, drag, dropTarget, fields,
                   instance, constructed, checked>>

\* A client calls ProjectState.getInstance(); lastCall.id names the store
\* the call returned.
GetInstance ==
  LET r == getInstance(instance, constructed) IN
    /\ constructed < MaxStores
    /\ instance' = r.instance
    /\ constructed' = r.constructed
    /\ lastCall' = Call("getInstance", NoTarget, ToString(r.returned), Active,
                        NotFound, <<>>)
    /\ UNCHANGED <<heap, projects, listeners, assignedProjects, snapshot,
                   droppable, drag, dropTarget, fields, checked>>

Register == \E listenerFn \in ClientListeners : AddListener(listenerFn)

NextStore ==
  \/ Submit
  \/ Switch
  \/ Register
  \/ GetInstance

\* The store with its two lists, the form, and clients that register
\* callbacks and ask for the instance.
SpecStore == Init /\ [][NextStore]_vars

\* ------------------------------------------------- validate on its own
\* The fields a client passes to validate: a string or a number, each
\* constraint absent or present.
Abcde == <<"a", "b", "c", "d", "e">>
SampleValues ==
  {StrVal(t) : t \in {<<>>, <<" ">>, Abcd, Abcde, Abcdef}} \cup
  {NumVal(Num(n)) : n \in {0, 1, 3, 5, 6}}
Validatables ==
  [value : SampleValues, required : BOOLEAN,
   minLength : {Undefined, Some(5)}, maxLength : {Undefined, Some(5)},
   min : {Undefined, Some(1)}, max : {Undefined, Some(5)}]

\* The program loaded, and a client about to call validate on a field.
InitValidate ==
  /\ heap = <<>>
  /\ projects = <<>>
  /\ listeners = <<"active", "finished">>
  /\ assignedProjects = [v \in ViewTypes |-> <<>>]
  /\ snapshot = [l \in AllListeners |-> <<>>]
  /\ droppable = [v \in ViewTypes |-> FALSE]
  /\ drag = NoDrag
  /\ dropTarget = NoTarget
  /\ fields = ClearedForm
  /\ lastCall = Call("init", NoTarget, "", Active, NotFound, <<>>)
  /\ instance = ClassLoaded.instance
  /\ constructed = ClassLoaded.constructed
  /\ \E v \in Validatables :
       checked = <<[input |-> v, done |-> FALSE, result |-> FALSE]>>

\* The client's call of validate (lines 97-129) returns.
Validate ==
  /\ Len(checked) = 1
  /\ ~checked[1].done
  /\ checked' = <<[input |-> checked[1].input, done |-> TRUE,
                   result |-> validate(checked[1].input)]>>
  /\ lastCall' = Call("validate", NoTarget, "", Active, NotFound, <<>>)
  /\ UNCHANGED <<heap, projects, listeners, assignedProjects, snapshot,
                 droppable, drag, dropTarget, fields, instance, constructed>>

NextValidate == Validate

SpecValidate == InitValidate /\ [][NextValidate]_vars

\* ----------------------------------------------------------- observers
\* What a listener can do with the array it is called with (line 77): the
\* array is the listener's own, its elements are the store's Project
\* objects.

\* Array.prototype.reverse
RECURSIVE Reverse(_)
Reverse(s) == IF s = <<>> THEN <<>> ELSE Append(Reverse(Tail(s)), Head(s))

\* The arrays a listener can turn its array into by removing the first
\* element (shift) or by reversing it.
ArrayEdits(items) ==
  IF items = <<>> THEN {} ELSE {Tail(items), Reverse(items)}

\* A listener adds, removes or reorders elements of the array it was given.
ObserverEditsArray(l, items) ==
  /\ items \in ArrayEdits(snapshot[l])
  /\ items # snapshot[l]
  /\ snapshot' = [snapshot EXCEPT ![l] = items]
  /\ lastCall' = Call("observerEditsArray", l, "", Active, NotFound, <<>>)
  /\ UNCHANGED <<heap, projects, listeners, assignedProjects, droppable,
                 drag, dropTarget, fields,
                 instance, constructed, checked>>

\* A listener writes the status of the i-th element of the array it was
\* given.
ObserverWritesStatus(l, i, status) ==
  /\ i \in 1..Len(snapshot[l])
  /\ heap' = [heap EXCEPT ![snapshot[l][i]].status = status]
  /\ lastCall' = Call("observerWritesStatus", l, "", status, NotFound, <<>>)
  /\ UNCHANGED <<projects, listeners, assignedProjects, snapshot, droppable,
                 drag, dropTarget, fields,
                 instance, constructed, checked>>

EditArray ==
  \E l \in ViewTypes : \E items \in ArrayEdits(snapshot[l]) : ObserverEditsArray(l, items)
WriteStatus ==
  \E l \in ViewTypes, i \in 1..MaxProjects, status \in ProjectStatus :
    ObserverWritesStatus(l, i, status)

NextObserver ==
  \/ Submit
  \/ Switch
  \/ EditArray
  \/ WriteStatus

\* The store, its two listeners, and listeners that use what they are given.
SpecObserver == Init /\ [][NextObserver]_vars

\* ------------------------------------------------------------ claims
\* The status a list of the given type shows.
KindStatus(type) == IF type = "active" THEN Active ELSE Finished

\* The call found a project with the id it was given.
Found(call) == call.old # NotFound

\* The references in items whose project has the status.
RECURSIVE WithStatus(_, _, _)
WithStatus(items, h, status) ==
  IF items = <<>> THEN <<>>
  ELSE IF h[Head(items)].status = status
       THEN <<Head(items)>> \o WithStatus(Tail(items), h, status)
       ELSE WithStatus(Tail(items), h, status)

\* C1: after a drop on a list whose payload is the id of a stored project,
\* that project has the status of the receiving list's type and the drop
\* invoked every listener once, also when the project had that status
\* already.
C1_DropSetsStatus ==
  (lastCall.op = "drop" /\ Found(lastCall)) =>
     /\ StatusOf(lastCall.id) = KindStatus(lastCall.view)
     /\ lastCall.invoked = listeners

\* C2: each list's assignedProjects is the subsequence of the array its
\* listener was last called with whose status is the list's type: the
\* active list holds the Active projects, the finished list the Finished.
C2_ViewsFilterByKind ==
  \A type \in ViewTypes :
    assignedProjects[type] = WithStatus(snapshot[type], heap, KindStatus(type))

\* C3 (P5): the two lists' assignedProjects together hold every project of
\* the store, and no project is in both.
C3_ViewPartition ==
  /\ Range(assignedProjects["active"]) \cup Range(assignedProjects["finished"])
       = Range(projects)
  /\ Range(assignedProjects["active"]) \cap Range(assignedProjects["finished"])
       = {}

\* C4 (P2): a call of addProject, and a call of switchProjectStatus that
\* finds its id, invokes every registered listener exactly once, in the
\* same step, with an array equal to the store's projects after the
\* mutation; the listener reads the projects as mutated.
C4_NotifyOnMutate ==
  (lastCall.op = "addProject" \/ (lastCall.op = "switchProjectStatus" /\ Found(lastCall))) =>
     /\ lastCall.invoked = listeners
     /\ \A l \in Range(listeners) :
          /\ Cardinality({i \in 1..Len(lastCall.invoked) : lastCall.invoked[i] = l}) = 1
          /\ snapshot[l] = projects
     /\ assignedProjects["active"] = WithStatus(projects, heap, Active)

C4_Witness ==
  /\ lastCall.op = "switchProjectStatus"
  /\ Found(lastCall)
  /\ lastCall.old # lastCall.status
  /\ Len(projects) = 2

\* C5 (P3): a status change asked for an id the store does not hold, by
\* a call of switchProjectStatus or by a drop carrying that id, invokes no
\* listener, completes, and leaves the store's projects and both lists'
\* contents as they were.
C5_UnknownIdNoOp ==
  [][ (lastCall'.op \in {"switchProjectStatus", "drop"} /\ ~Found(lastCall')) =>
        /\ lastCall'.invoked = <<>>
        /\ UNCHANGED <<heap, projects, assignedProjects>> ]_vars

C5_Witness ==
  /\ lastCall.op = "switchProjectStatus"
  /\ lastCall.id = UnknownId
  /\ ~Found(lastCall)
  /\ Len(projects) = 2

\* C6 (P4): switchProjectStatus(id, s) when the project found for id has
\* status s already invokes every listener once and leaves the store's
\* projects, their fields and each list's contents as they were.
C6_IdempotentRestatus ==
  [][ (lastCall'.op = "switchProjectStatus" /\ lastCall'.old = lastCall'.status) =>
        /\ lastCall'.invoked = listeners
        /\ UNCHANGED <<heap, projects, assignedProjects>> ]_vars

C6_Witness ==
  /\ lastCall.op = "switchProjectStatus"
  /\ lastCall.old = lastCall.status
  /\ lastCall.status = Finished
  /\ lastCall.invoked = listeners

\* C7 (P1): the ids of the projects in the store are pairwise distinct.
C7_UniqueIds ==
  \A i, j \in 1..Len(projects) :
    i # j => heap[projects[i]].id # heap[projects[j]].id

\* The form satisfies what the form is meant to demand: a title, a
\* description of at least 5 characters, a people count from 1 to 5.
FormValid(f) ==
  /\ Len(Trim(f.title)) # 0
  /\ Len(Trim(f.description)) # 0
  /\ Len(f.description) >= 5
  /\ Len(Trim(f.people)) # 0
  /\ ~ToNumber(f.people).nan
  /\ ToNumber(f.people).n \in 1..5

\* C8: a submission of a form that fails validation calls no addProject:
\* no listener is invoked and the store's projects stay as they were.
C8_InvalidFormNoMutation ==
  [][ \A f \in SampleForms, id \in RandomIds :
        (SubmitHandler(f, id) /\ ~FormValid(f)) =>
           /\ lastCall'.invoked = <<>>
           /\ UNCHANGED <<heap, projects>> ]_vars

\* s is a subsequence of t (the elements of s occur in t in that order).
RECURSIVE IsSubsequence(_, _)
IsSubsequence(s, t) ==
  IF s = <<>> THEN TRUE
  ELSE IF t = <<>> THEN FALSE
  ELSE IF Head(s) = Head(t) THEN IsSubsequence(Tail(s), Tail(t))
  ELSE IsSubsequence(s, Tail(t))

\* C9 (P6): the store lists the projects in the order they were added
\* (references are handed out in that order), and each list's
\* assignedProjects is a subsequence of the store's projects.
C9_OrderPreserved ==
  /\ \A i \in 1..Len(projects) : projects[i] = i
  /\ \A type \in ViewTypes : IsSubsequence(assignedProjects[type], projects)

C9_Witness ==
  /\ lastCall.op = "switchProjectStatus"
  /\ Found(lastCall)
  /\ Len(projects) = 2
  /\ assignedProjects["active"] = <<2>>

\* C10: nothing a listener does with the array it is given changes the
\* store's projects or a field of a project the store holds: they change
\* only in addProject and switchProjectStatus.
C10_StoreChangesOnlyByStore ==
  [][ (heap' # heap \/ projects' # projects) =>
        lastCall'.op \in {"addProject", "switchProjectStatus"} ]_vars

\* The handlers of a drag gesture other than the drop.
GestureOps == {"dragStart", "foreignDragStart", "dragOver", "dragLeave", "dragEnd"}

\* C11: drag-start, drag-over, drag-leave and drag-end leave the store as
\* it is: no listener is invoked, and the store's projects and every
\* project's fields, the status among them, are unchanged.
C11_GestureWithoutDropNoChange ==
  [][ lastCall'.op \in GestureOps =>
        /\ lastCall'.invoked = <<>>
        /\ UNCHANGED <<heap, projects, listeners, assignedProjects>> ]_vars

C11_Witness ==
  /\ lastCall.op = "dragLeave"
  /\ drag.active
  /\ drag.data \in {heap[projects[i]].id : i \in 1..Len(projects)}
  /\ lastCall.view = "finished"
  /\ StatusOf(drag.data) = Active

\* C12: addProject(title, description, numOfPeople) appends one project
\* at the end of the store's projects: a new object with status Active
\* and the given title, description and people; the projects stored
\* before keep their place and their fields; the active list shows the
\* new project and the finished list does not.
C12_AddProjectAppends ==
  [][ \A f \in SampleForms, id \in RandomIds :
        (SubmitHandler(f, id) /\ lastCall'.op = "addProject") =>
           /\ Len(heap') = Len(heap) + 1
           /\ projects' = Append(projects, Len(heap'))
           /\ heap'[Len(heap')] =
                [id |-> id, title |-> f.title, description |-> f.description,
                 people |-> ToNumber(f.people), status |-> Active]
           /\ \A r \in 1..Len(heap) : heap'[r] = heap[r]
           /\ Len(heap') \in Range(assignedProjects'["active"])
           /\ Len(heap') \notin Range(assignedProjects'["finished"]) ]_vars

C12_Witness ==
  /\ lastCall.op = "addProject"
  /\ Len(projects) = 2
  /\ heap[projects[2]].people = Num(3)
  /\ heap[projects[1]].status = Finished

\* C13: one ProjectState exists: the call of getInstance made while the
\* module loads constructs it, and every later call returns it, leaving
\* the static field and the store's projects and listeners as they are.
C13_SingleInstance ==
  /\ constructed = 1
  /\ instance = 1
  /\ lastCall.op = "getInstance" => lastCall.id = ToString(ClassLoaded.returned)

C13_Witness ==
  /\ lastCall.op = "getInstance"
  /\ Len(projects) = 2
  /\ Len(listeners) = 3

\* C14: in every step the projects stored before stay in the store at
\* their place with their id, title, description and people; every status
\* is Active or Finished; a status changes only in a call of
\* switchProjectStatus with that project's id, and then no other
\* project's status changes.
C14_ProjectsPersist ==
  [][ /\ Len(heap') >= Len(heap)
      /\ Len(projects') >= Len(projects)
      /\ SubSeq(projects', 1, Len(projects)) = projects
      /\ \A r \in 1..Len(heap') : heap'[r].status \in ProjectStatus
      /\ \A r \in 1..Len(heap) :
           /\ heap'[r].id = heap[r].id
           /\ heap'[r].title = heap[r].title
           /\ heap'[r].description = heap[r].description
           /\ heap'[r].people = heap[r].people
           /\ heap'[r].status # heap[r].status =>
                /\ lastCall'.op = "switchProjectStatus"
                /\ lastCall'.id = heap[r].id
                /\ \A q \in 1..Len(heap) :
                     q # r => heap'[q].status = heap[q].status ]_vars

C14_Witness ==
  /\ lastCall.op = "switchProjectStatus"
  /\ lastCall.old # lastCall.status
  /\ Len(projects) = 2
  /\ heap[projects[1]].id = heap[projects[2]].id
  /\ heap[projects[1]].status # heap[projects[2]].status

\* One mutation of the store: one project pushed, or at most one status
\* written.
OneMutation ==
  \/ /\ Len(heap') = Len(heap) + 1
     /\ projects' = Append(projects, Len(heap'))
     /\ \A r \in 1..Len(heap) : heap'[r] = heap[r]
  \/ /\ projects' = projects
     /\ Len(heap') = Len(heap)
     /\ Cardinality({r \in 1..Len(heap) : heap'[r] # heap[r]}) <= 1

\* C15: a step that changes the store or invokes a listener is one call of
\* addProject or switchProjectStatus that makes one mutation and invokes
\* all the registered listeners, in the order they were registered, each
\* with the store's projects as they are after that mutation.
C15_RoundInOrderAndWhole ==
  [][ (heap' # heap \/ projects' # projects \/ lastCall'.invoked # <<>>) =>
        /\ lastCall'.op \in {"addProject", "switchProjectStatus"}
        /\ OneMutation
        /\ listeners' = listeners
        /\ lastCall'.invoked = listeners
        /\ \A l \in Range(listeners) :
             snapshot'[l] = Callback(l, projects') ]_vars

C15_Witness ==
  /\ lastCall.op = "addProject"
  /\ lastCall.invoked = <<"active", "finished", "editor", "probe">>
  /\ Len(projects) = 2

\* C16: after a drag-leave and after a drop on a list, that list is not
\* marked as a drop candidate.
C16_AffordanceCleared ==
  lastCall.op \in {"dragLeave", "drop"} => ~droppable[lastCall.view]

\* The field satisfies every constraint present on it: required, the
\* bounds on a string's length, the bounds on a number, bounds included.
Satisfies(field) ==
  LET v == field.value IN
    /\ field.required => NonEmptyText(v)
    /\ (field.minLength.tag = "number" /\ v.type = "string") =>
         Len(v.s) >= field.minLength.n
    /\ (field.maxLength.tag = "number" /\ v.type = "string") =>
         Len(v.s) <= field.maxLength.n
    /\ (field.min.tag = "number" /\ v.type = "number") =>
         (~v.n.nan) /\ v.n.n >= field.min.n
    /\ (field.max.tag = "number" /\ v.type = "number") =>
         (~v.n.nan) /\ v.n.n <= field.max.n

\* C17: validate returns true exactly when the field satisfies every
\* constraint present on it, absent constraints counting as satisfied.
C17_ValidateExact ==
  \A i \in 1..Len(checked) :
    checked[i].done => (checked[i].result <=> Satisfies(checked[i].input))

\* C18: addListener appends the callback and does nothing else: no
\* listener is called, the store's projects and every listener's array
\* stay as they are.  Listeners are only ever appended; a listener gets an
\* array only in a call of addProject or switchProjectStatus, and every
\* such call that mutates invokes every registered listener.
C18_AddListenerOnlyRegisters ==
  [][ /\ lastCall'.op = "addListener" =>
           /\ listeners' = Append(listeners, lastCall'.view)
           /\ lastCall'.invoked = <<>>
           /\ UNCHANGED <<heap, projects, snapshot, assignedProjects>>
      /\ Len(listeners') >= Len(listeners)
      /\ SubSeq(listeners', 1, Len(listeners)) = listeners
      /\ \A l \in AllListeners :
           (snapshot'[l] # snapshot[l] \/ l \in Range(lastCall'.invoked)) =>
              lastCall'.op \in {"addProject", "switchProjectStatus"}
      /\ (lastCall'.op = "addProject" \/
          (lastCall'.op = "switchProjectStatus" /\ Found(lastCall'))) =>
           \A l \in Range(listeners) : l \in Range(lastCall'.invoked) ]_vars

C18_Witness ==
  /\ lastCall.op = "addListener"
  /\ lastCall.view = "probe"
  /\ Len(projects) = 2
  /\ snapshot["probe"] = <<>>

\* The payload of a drag started on a card or of a dragged plain text.
RecognisedKind(d) == d \in {TextDrag(t) : t \in PayloadIds}

\* The list is marked as the drop candidate and the default is suppressed.
Marked(type) == droppable'[type] /\ dropTarget' = type

C20_SeparateCopies ==
  lastCall.invoked # <<>> =>
    /\ \A i \in 1..Len(lastCall.invoked) :
         LET l == lastCall.invoked[i] IN
           IF l = "editor"
           THEN snapshot[l] = Tail(projects)
           ELSE snapshot[l] = projects
    /\ Len(projects) = Len(heap)

C20_Witness ==
  /\ lastCall.op = "switchProjectStatus"
  /\ lastCall.invoked = <<"active", "finished", "editor", "probe">>
  /\ snapshot["editor"] = <<2>>
  /\ snapshot["probe"] = <<1, 2>>

====
